---- MODULE Spec2Model ----
(***************************************************************************)
(* AMBSI1 firmware (src/src/main.c): the bridge between the CAN bus and    *)
(* the ARCOM controller.  The model holds main(), the CAN message handlers *)
(* that the AMB library calls from the CAN interrupt, the link transaction *)
(* engine (implMonitorSingle, implControlSingle) and the dispatch registry *)
(* of the AMB library.                                                     *)
(*                                                                         *)
(* C arrays are 0-based, TLA+ sequences 1-based: data[i] of the source is  *)
(* data[i+1] here.                                                         *)
(***************************************************************************)
EXTENDS Integers, Sequences, FiniteSets, TLC

(***************************************************************************)
(* Program constants                                                       *)
(***************************************************************************)
MAX_CAN_MSG_PAYLOAD == 8
\* 0x20000
GET_AMBSI1_VERSION_INFO == 131072
\* 0x20001
GET_SETUP_INFO == 131073
\* 0x20003
GET_SPECIAL_MONITOR_RCAS == 131075
\* 0x20004
GET_SPECIAL_CONTROL_RCAS == 131076
\* 0x20005
GET_MONITOR_RCAS == 131077
\* 0x20006
GET_CONTROL_RCAS == 131078
\* 0x20020
BASE_AMBSI1_RESERVED == 131104
\* 0x2003F
LAST_AMBSI1_RESERVED == 131135
\* the diagnostic requests getReservedMsg answers
GET_MON_TIMERS1_RCA == 131104
GET_MON_TIMERS2_RCA == 131105
GET_CMD_TIMERS1_RCA == 131106
GET_CMD_TIMERS2_RCA == 131107
GET_PPORT_STATE == 131108
\* 0x30003, the address of the ambient temperature sensor
AMBIENT_RCA == 196611
\* the number of slots of cb_memory
CB_SLOTS == 9
MAX_TIMEOUT == 500
\* DP7 = 0xFF: the data port drives the bus
DP7_TRANSMIT == 255
\* DP7 = 0x00: the data port reads the bus
DP7_RECEIVE == 0
\* the status bytes of getSetupInfo
STATUS_NO_ERROR == 0
STATUS_ALREADY_DONE == 5
STATUS_NOT_READY == 6
STATUS_TIMEOUT == 7

CAN_MONITOR == "CAN_MONITOR"
CAN_CONTROL == "CAN_CONTROL"

(***************************************************************************)
(* Bounds of the model                                                     *)
(***************************************************************************)
\* the longest payload of a CAN message the bus delivers to a handler
MaxLen == 1
\* how many CAN messages arrive while the firmware starts
MaxIrq == 1
\* how many CAN messages arrive in the steady state
MaxMsgs == 1

(***************************************************************************)
(* Bytes and messages                                                      *)
(***************************************************************************)
\* (unsigned char)(x >> 8*i)
ByteOf(x, i) == (x \div (256 ^ i)) % 256

\* an unsigned long, as its upper and its lower 16 bits
U32(hi, lo) == [hi |-> hi, lo |-> lo]

\* a shift done in a 16-bit int, the cast to unsigned long left out
ShiftLeftInt(b, n) == IF n < 16 THEN U32(0, (b * (2 ^ n)) % 65536) ELSE U32(0, 0)

\* ((unsigned long) b) << n, for a byte b and n = 0, 8, 16 or 24
ShiftLeft(b, n) ==
    CASE n = 0 -> U32(0, b)
      [] n = 8 -> U32(0, b * 256)
      [] n = 16 -> U32(b, 0)
      [] OTHER -> U32((b * 256) % 65536, 0)

\* x += y on unsigned long: the sum modulo 2^32
AddU32(x, y) ==
    LET lo == x.lo + y.lo
        hi == x.hi + y.hi + (lo \div 65536)
    IN  U32(hi % 65536, lo % 65536)

\* the unsigned long getSetupInfo rebuilds from data[off] .. data[off+3]:
\* "= 0", then "+= data[off+3] << 24" down to "+= data[off]"
RebuildU32(data, off) ==
    LET s0 == U32(0, 0)
        s1 == AddU32(s0, ShiftLeft(data[off + 4], 24))
        s2 == AddU32(s1, ShiftLeft(data[off + 3], 16))
        s3 == AddU32(s2, ShiftLeft(data[off + 2], 8))
    IN  AddU32(s3, ShiftLeft(data[off + 1], 0))

\* an unsigned long below 2^31 as an integer
ValueOf(u) == u.hi * 65536 + u.lo

\* the same rebuild on integers, for the bounds below 2^31: each byte is
\* shifted into its own eight bits
RebuildRCA(data, off) ==
    LET s0 == 0
        s1 == s0 + data[off + 4] * 16777216
        s2 == s1 + data[off + 3] * 65536
        s3 == s2 + data[off + 2] * 256
    IN  s3 + data[off + 1]

\* byte i (0 the least significant) of an unsigned long
ByteOfU32(u, i) == IF i < 2 THEN ByteOf(u.lo, i) ELSE ByteOf(u.hi, i - 2)

\* the inverse encoding of two unsigned longs
EncodeU32(low, high) ==
    << ByteOfU32(low, 0), ByteOfU32(low, 1), ByteOfU32(low, 2), ByteOfU32(low, 3),
       ByteOfU32(high, 0), ByteOfU32(high, 1), ByteOfU32(high, 2),
       ByteOfU32(high, 3) >>

\* the inverse encoding: low bound in bytes 0..3, high bound in bytes 4..7
EncodeRange(low, high) ==
    << ByteOf(low, 0), ByteOf(low, 1), ByteOf(low, 2), ByteOf(low, 3),
       ByteOf(high, 0), ByteOf(high, 1), ByteOf(high, 2), ByteOf(high, 3) >>

\* a CAN_MSG_TYPE
Msg(dirn, len, addr, data) ==
    [dirn |-> dirn, len |-> len, relative_address |-> addr, data |-> data]

ZeroData == << 0, 0, 0, 0, 0, 0, 0, 0 >>

(***************************************************************************)
(* What ARCOM does during one transaction.  strobe[k] is the number of     *)
(* countdown ticks EPPC_NDATASTROBE stays high in phase k (1..4 address    *)
(* bytes, 5 length sent, 6 length received); lateByte is the payload byte  *)
(* (1-based, 0 for none) whose strobe never drops in time; rlen and bytes  *)
(* are what the firmware reads from P7 in the receive phases.              *)
(***************************************************************************)
Behaviour(strobe, lateByte, rlen, bytes) ==
    [strobe |-> strobe, lateByte |-> lateByte, rlen |-> rlen, bytes |-> bytes]

\* IMPL_HANDSHAKE(TIMER): the value TIMER is left with
IMPL_HANDSHAKE(delay) == IF delay >= MAX_TIMEOUT THEN 0 ELSE MAX_TIMEOUT - delay

\* the strobe delay of payload byte number counter (0-based, as in the source)
PayloadDelay(b, counter) == IF b.lateByte = counter + 1 THEN MAX_TIMEOUT ELSE 0

\* the hardware a transaction touches
Hw(port, monTimer, cmdTimer) ==
    [port |-> port, monTimer |-> monTimer, cmdTimer |-> cmdTimer]

(***************************************************************************)
(* The link transaction engine.  Each operator runs one whole call on the  *)
(* message and the hardware hw while ARCOM behaves as b, and gives the     *)
(* message and hardware on return, the return code, and what happened:     *)
(* expired, the phases whose countdown reached zero; sent, the values on   *)
(* P7 at each TOGGLE_NWAIT made while the port was transmitting; nread,    *)
(* the number of payload bytes stored; rlen, the reply length read from P7 *)
(* (-1 when none was read); rbytes, the payload bytes read; port, the port *)
(* lines at the return.  P7 in port is the output latch.                   *)
(***************************************************************************)
CallRecord(fn, sendReply, in, out, ret, expired, sent, nread, rlen, rbytes, port) ==
    [fn |-> fn, sendReply |-> sendReply, in |-> in, out |-> out, ret |-> ret,
     expired |-> expired, sent |-> sent, nread |-> nread, rlen |-> rlen,
     rbytes |-> rbytes, port |-> port]

TxnResult(message, hw, ret, call) ==
    [message |-> message, hw |-> hw, ret |-> ret, call |-> call]

\* the "Handle timeout" block of implMonitorSingle
HandleTimeout(message, timeout, sendReply) ==
    IF timeout \/ ~sendReply
    THEN [message EXCEPT !.dirn = CAN_CONTROL, !.len = 0]
    ELSE message

\* the early return of implMonitorSingle after the first address byte
MonitorAbort(message) == message

\* a test of the reply length that leaves the countdown out
LengthErrorNoTimer(t6, len6) == len6 > MAX_CAN_MSG_PAYLOAD

\* "if (!monTimer6 || message->len > MAX_CAN_MSG_PAYLOAD)"
LengthError(t6, len6) == (t6 = 0) \/ (len6 > MAX_CAN_MSG_PAYLOAD)

\* a payload loop that gives up at the first byte whose strobe is late
PayloadLoopGivesUp(message, b) ==
    IF b.lateByte \in 1..message.len THEN b.lateByte - 1 ELSE message.len

\* "for (counter=0; counter < message->len; counter++)" of implControlSingle:
\* the number of payload bytes put on P7, no countdown being tested
PayloadLoop(message, b) == message.len

\* a build with DEBUG_TIMERS: RESET_MON_TIMERS, RESET_CMD_TIMERS set 0xFFFF
RESET_TIMERS_DEBUG(timer) == [k \in DOMAIN timer |-> 65535]

\* RESET_MON_TIMERS and RESET_CMD_TIMERS of the production build: empty
RESET_TIMERS(timer) == timer

\* the timers of a transaction of bank own ("mon" or "cmd"): wrote is the
\* set of countdowns of its bank the call assigned, zeroed those it left at
\* zero, kept tells that every other countdown of the bank has the value it
\* had at the entry, otherKept that the other bank is as it was
TimerTrace(call, own, wrote, before, after) ==
    LET b == IF own = "mon" THEN before.monTimer ELSE before.cmdTimer
        a == IF own = "mon" THEN after.monTimer ELSE after.cmdTimer
    IN  [fn |-> call.fn, sendReply |-> call.sendReply, in |-> call.in,
         out |-> call.out, ret |-> call.ret, expired |-> call.expired,
         sent |-> call.sent, nread |-> call.nread, rlen |-> call.rlen,
         rbytes |-> call.rbytes, port |-> call.port, wrote |-> wrote,
         zeroed |-> {k \in wrote : a[k] = 0},
         kept |-> \A k \in (DOMAIN a) \ wrote : a[k] = b[k],
         otherKept |-> IF own = "mon" THEN after.cmdTimer = before.cmdTimer
                       ELSE after.monTimer = before.monTimer]

\* an early return that leaves the trigger line raised
AbortPortTriggered(p, addr) ==
    [p EXCEPT !.EPPS_INTERRUPT = 1, !.EPPS_NWAIT = 0,
              !.DP7 = DP7_TRANSMIT, !.P7 = ByteOf(addr, 0)]

\* the port lines at the early return of either transaction: DP7 = 0xFF, the
\* first address byte on P7, TOGGLE_NWAIT, EPPS_INTERRUPT = 0
AbortPort(p, addr) ==
    [p EXCEPT !.EPPS_INTERRUPT = 0, !.EPPS_NWAIT = 0,
              !.DP7 = DP7_TRANSMIT, !.P7 = ByteOf(addr, 0)]

\* the port lines at the last return of either transaction, latch the last
\* value put on P7
EndPort(p, latch) ==
    [p EXCEPT !.EPPS_INTERRUPT = 0, !.EPPS_NWAIT = 0,
              !.DP7 = DP7_TRANSMIT, !.P7 = latch]

implMonitorSingle(message, sendReply, hw, b) ==
    LET addr == message.relative_address
        t1 == IMPL_HANDSHAKE(b.strobe[1])
        t2 == IMPL_HANDSHAKE(b.strobe[2])
        t3 == IMPL_HANDSHAKE(b.strobe[3])
        t4 == IMPL_HANDSHAKE(b.strobe[4])
        t5 == IMPL_HANDSHAKE(b.strobe[5])
        t6 == IMPL_HANDSHAKE(b.strobe[6])
        \* message->len = (ubyte) P7
        len6 == b.rlen % 256
        timeout6 == LengthError(t6, len6)
        \* the number of iterations of the payload loop
        n == IF timeout6 THEN 0
             ELSE IF b.lateByte \in 1..len6 THEN b.lateByte
             ELSE len6
        reset == RESET_TIMERS(hw.monTimer)
        t7 == IF n = 0 THEN reset[7]
              ELSE IMPL_HANDSHAKE(PayloadDelay(b, n - 1))
        timeout == timeout6 \/ (n >= 1 /\ t7 = 0)
        data == [i \in 1..8 |-> IF i <= n THEN b.bytes[i] ELSE message.data[i]]
        received == [message EXCEPT !.len = len6, !.data = data]
        out == HandleTimeout(received, timeout, sendReply)
        ret == IF timeout THEN -1 ELSE 0
        abortPort == AbortPort(hw.port, addr)
        endPort == EndPort(hw.port, ByteOf(addr, 3))
        timers == [k \in 1..7 |->
                     CASE k = 1 -> t1 [] k = 2 -> t2 [] k = 3 -> t3 [] k = 4 -> t4
                       [] k = 5 -> t5 [] k = 6 -> t6 [] OTHER -> t7]
        sent == << ByteOf(addr, 0), ByteOf(addr, 1), ByteOf(addr, 2),
                   ByteOf(addr, 3), ByteOf(addr, 3) >>
        expired == {k \in 1..6 : timers[k] = 0}
                      \cup (IF n >= 1 /\ t7 = 0 THEN {7} ELSE {})
        abortHw == Hw(abortPort, [reset EXCEPT ![1] = 0], hw.cmdTimer)
        endHw == Hw(endPort, timers, hw.cmdTimer)
    IN  IF t1 = 0
        THEN TxnResult(MonitorAbort(message), abortHw, -1,
                       TimerTrace(
                           CallRecord("implMonitorSingle", sendReply, message,
                                      MonitorAbort(message), -1, {1},
                                      << ByteOf(addr, 0) >>, 0, -1, << >>,
                                      abortPort),
                           "mon", {1}, hw, abortHw))
        ELSE TxnResult(out, endHw, ret,
                       TimerTrace(
                           CallRecord("implMonitorSingle", sendReply, message,
                                      out, ret, expired, sent, n, len6,
                                      SubSeq(b.bytes, 1, n), endPort),
                           "mon", (1..6) \cup (IF n >= 1 THEN {7} ELSE {}),
                           hw, endHw))

implControlSingle(message, hw, b) ==
    LET addr == message.relative_address
        t1 == IMPL_HANDSHAKE(b.strobe[1])
        t2 == IMPL_HANDSHAKE(b.strobe[2])
        t3 == IMPL_HANDSHAKE(b.strobe[3])
        t4 == IMPL_HANDSHAKE(b.strobe[4])
        t5 == IMPL_HANDSHAKE(b.strobe[5])
        n == PayloadLoop(message, b)
        reset == RESET_TIMERS(hw.cmdTimer)
        t6 == IF n = 0 THEN reset[6]
              ELSE IMPL_HANDSHAKE(PayloadDelay(b, n - 1))
        timers == [k \in 1..6 |->
                     CASE k = 1 -> t1 [] k = 2 -> t2 [] k = 3 -> t3 [] k = 4 -> t4
                       [] k = 5 -> t5 [] OTHER -> t6]
        abortPort == AbortPort(hw.port, addr)
        endPort == EndPort(hw.port, IF n = 0 THEN message.len % 256
                                    ELSE message.data[n])
        sent == << ByteOf(addr, 0), ByteOf(addr, 1), ByteOf(addr, 2),
                   ByteOf(addr, 3), message.len % 256 >>
                \o [i \in 1..n |-> message.data[i]]
        expired == {k \in 1..5 : timers[k] = 0}
                      \cup (IF b.lateByte \in 1..n THEN {6} ELSE {})
        abortHw == Hw(abortPort, hw.monTimer, [reset EXCEPT ![1] = 0])
        endHw == Hw(endPort, hw.monTimer, timers)
    IN  IF t1 = 0
        THEN TxnResult(message, abortHw, -1,
                       TimerTrace(
                           CallRecord("implControlSingle", FALSE, message,
                                      message, -1, {1}, << ByteOf(addr, 0) >>,
                                      0, -1, << >>, abortPort),
                           "cmd", {1}, hw, abortHw))
        ELSE TxnResult(message, endHw, 0,
                       TimerTrace(
                           CallRecord("implControlSingle", FALSE, message,
                                      message, 0, expired, sent, 0, -1, << >>,
                                      endPort),
                           "cmd", (1..5) \cup (IF n >= 1 THEN {6} ELSE {}),
                           hw, endHw))

(***************************************************************************)
(* The request router.  b1 and b2 are ARCOM's behaviour in the first and   *)
(* in the second transaction of the message, when there is one.  calls is  *)
(* the sequence of transactions run, chain the handlers entered.           *)
(***************************************************************************)
HandlerResult(message, hw, ret, calls, chain) ==
    [message |-> message, hw |-> hw, ret |-> ret, calls |-> calls, chain |-> chain]

\* a monitorMsg that ran the transaction a second time whatever the first
\* returned
RetryAlways(ret) == TRUE

\* "if (ret != 0)": whether monitorMsg runs the transaction again
RetryNeeded(ret) == ret /= 0

\* a monitorMsg without the hand-over of commands to controlMsg
NeverControl(message) == FALSE

\* "if (message -> dirn == CAN_CONTROL)": monitorMsg hands the message over
IsControl(message) == message.dirn = CAN_CONTROL

\* a controlMsg without the hand-over of monitor requests to monitorMsg
NeverMonitor(message) == FALSE

\* "if (message -> dirn == CAN_MONITOR)": controlMsg hands the message over
IsMonitor(message) == message.dirn = CAN_MONITOR

RECURSIVE monitorMsg(_, _, _, _)
RECURSIVE controlMsg(_, _, _, _)

monitorMsg(message, hw, b1, b2) ==
    IF IsControl(message)
    THEN LET r == controlMsg(message, hw, b1, b2)
         IN  HandlerResult(r.message, r.hw, r.ret, r.calls,
                           << "monitorMsg" >> \o r.chain)
    ELSE LET try1 == implMonitorSingle(message, TRUE, hw, b1)
             try2 == implMonitorSingle(try1.message, TRUE, try1.hw, b2)
         IN  IF RetryNeeded(try1.ret)
             THEN HandlerResult(try2.message, try2.hw, try2.ret,
                                << try1.call, try2.call >>, << "monitorMsg" >>)
             ELSE HandlerResult(try1.message, try1.hw, try1.ret,
                                << try1.call >>, << "monitorMsg" >>)

controlMsg(message, hw, b1, b2) ==
    IF IsMonitor(message)
    THEN LET r == monitorMsg(message, hw, b1, b2)
         IN  HandlerResult(r.message, r.hw, r.ret, r.calls,
                           << "controlMsg" >> \o r.chain)
    ELSE LET r == implControlSingle(message, hw, b1)
         IN  HandlerResult(r.message, r.hw, r.ret, << r.call >>,
                           << "controlMsg" >>)

(***************************************************************************)
(* getReservedMsg: the diagnostic requests of the reserved range.  pins    *)
(* are the levels of the input lines SPPC_NSELECT and SPPC_INIT, which     *)
(* ARCOM drives, at the time of the read; rdy and ini are the flags ready  *)
(* and initialized.                                                        *)
(***************************************************************************)
\* (unsigned char) (TIMER >> 8) and (unsigned char) (TIMER)
HiByte(t) == (t \div 256) % 256
LoByte(t) == t % 256

\* (unsigned char) of a bit
BitOf(f) == IF f THEN 1 ELSE 0

\* the reply getReservedMsg writes into the message
ReservedReply(message, hw, pins, rdy, ini) ==
    LET a == message.relative_address
        m == hw.monTimer
        c == hw.cmdTimer
        data ==
          CASE a = GET_MON_TIMERS1_RCA ->
                 << HiByte(m[1]), LoByte(m[1]), HiByte(m[2]), LoByte(m[2]),
                    HiByte(m[3]), LoByte(m[3]), HiByte(m[4]), LoByte(m[4]) >>
            [] a = GET_MON_TIMERS2_RCA ->
                 << HiByte(m[5]), LoByte(m[5]), HiByte(m[6]), LoByte(m[6]),
                    HiByte(m[7]), LoByte(m[7]),
                    HiByte(MAX_TIMEOUT), LoByte(MAX_TIMEOUT) >>
            [] a = GET_CMD_TIMERS1_RCA ->
                 << HiByte(c[1]), LoByte(c[1]), HiByte(c[2]), LoByte(c[2]),
                    HiByte(c[3]), LoByte(c[3]), HiByte(c[4]), LoByte(c[4]) >>
            [] a = GET_CMD_TIMERS2_RCA ->
                 << HiByte(c[5]), LoByte(c[5]), HiByte(c[6]), LoByte(c[6]),
                    0, 0, HiByte(MAX_TIMEOUT), LoByte(MAX_TIMEOUT) >>
            [] a = GET_PPORT_STATE ->
                 << pins.SPPC_NSELECT, hw.port.SPPS_SELECTIN, pins.SPPC_INIT,
                    hw.port.EPPS_INTERRUPT, LoByte(hw.port.DP7),
                    LoByte(hw.port.P7), BitOf(rdy), BitOf(ini) >>
            [] OTHER -> << 0, 0, 0, 0, 0, 0, 0, 0 >>
        len == IF a \in GET_MON_TIMERS1_RCA..GET_PPORT_STATE THEN 8 ELSE 0
    IN  [message EXCEPT !.data = data, !.len = len]

\* a getReservedMsg that restarts the countdowns it has reported
getReservedMsgResetting(message, hw, pins, rdy, ini) ==
    [message |-> ReservedReply(message, hw, pins, rdy, ini),
     hw |-> Hw(hw.port, [k \in 1..7 |-> MAX_TIMEOUT],
               [k \in 1..6 |-> MAX_TIMEOUT]),
     ret |-> 0, calls |-> << >>, chain |-> << "getReservedMsg" >>]

\* getReservedMsg: the message on return, the hardware (which no statement
\* of the function writes) and the return code 0
getReservedMsg(message, hw, pins, rdy, ini) ==
    [message |-> ReservedReply(message, hw, pins, rdy, ini), hw |-> hw,
     ret |-> 0, calls |-> << >>, chain |-> << "getReservedMsg" >>]

(***************************************************************************)
(* The dispatch registry of the AMB library (libraries/amb, consumed       *)
(* through amb_register_function and amb_unregister_last_function).        *)
(***************************************************************************)
Entry(low, high, func) == [low |-> low, high |-> high, func |-> func]

RegResult(registry, ret) == [registry |-> registry, ret |-> ret]

amb_register_function(reg, low, high, func) ==
    IF Len(reg) >= CB_SLOTS
    THEN RegResult(reg, -1)
    ELSE RegResult(Append(reg, Entry(low, high, func)), 0)

amb_unregister_last_function(reg) ==
    IF Len(reg) = 0 THEN reg ELSE SubSeq(reg, 1, Len(reg) - 1)

RECURSIVE UnregisterLast(_, _)
\* n consecutive calls of amb_unregister_last_function
UnregisterLast(reg, n) ==
    IF n = 0 THEN reg ELSE UnregisterLast(amb_unregister_last_function(reg), n - 1)

\* the handlers the CAN stack may call for a message to addr
Registered(reg, addr, func) ==
    \E i \in 1..Len(reg) :
        reg[i].low <= addr /\ addr <= reg[i].high /\ reg[i].func = func

\* the four boot-time registrations of main, in order
StaticEntry(i) ==
    CASE i = 1 -> Entry(AMBIENT_RCA, AMBIENT_RCA, "ambient_msg")
      [] i = 2 -> Entry(GET_AMBSI1_VERSION_INFO, GET_AMBSI1_VERSION_INFO, "getVersionInfo")
      [] i = 3 -> Entry(BASE_AMBSI1_RESERVED, LAST_AMBSI1_RESERVED, "getReservedMsg")
      [] OTHER -> Entry(GET_SETUP_INFO, GET_SETUP_INFO, "getSetupInfo")

(***************************************************************************)
(* getSetupInfo, block by block.  st is the state the function works on:   *)
(* the globals, the hardware, and message, the handler's argument.  When   *)
(* main calls getSetupInfo(&myCANMessage) the argument is the global       *)
(* itself (alias = TRUE) and st.message is not used.                       *)
(***************************************************************************)
Rca(lsm, hsm, lsc, hsc, lm, hm, lc, hc) ==
    [lowestSpecialMonitorRCA |-> lsm, highestSpecialMonitorRCA |-> hsm,
     lowestSpecialControlRCA |-> lsc, highestSpecialControlRCA |-> hsc,
     lowestMonitorRCA |-> lm, highestMonitorRCA |-> hm,
     lowestControlRCA |-> lc, highestControlRCA |-> hc]

\* the address of the k-th query of the negotiation
QueryRCA(k) ==
    CASE k = 1 -> GET_SPECIAL_MONITOR_RCAS
      [] k = 2 -> GET_SPECIAL_CONTROL_RCAS
      [] k = 3 -> GET_MONITOR_RCAS
      [] OTHER -> GET_CONTROL_RCAS

\* the number of amb_unregister_last_function calls after a timeout of query k
RollbackCount(k) ==
    CASE k = 1 -> 0 [] k = 2 -> 2 [] k = 3 -> 3 [] OTHER -> 4

\* the message getSetupInfo answers in
TheMessage(st, alias) == IF alias THEN st.myCANMessage ELSE st.message

\* message->len = v
SetLen(st, alias, v) ==
    IF alias THEN [st EXCEPT !.myCANMessage.len = v]
    ELSE [st EXCEPT !.message.len = v]

\* message->data[0] = v
SetStatus(st, alias, v) ==
    IF alias THEN [st EXCEPT !.myCANMessage.data[1] = v]
    ELSE [st EXCEPT !.message.data[1] = v]

\* return code of "if (initialized) { ... return -1; }"
AlreadyInitializedReturn == -1

\* a getSetupInfo without the check of ready
AlwaysReady(st) == FALSE

\* "if (!ready)": the boot registrations and the ports are not set up yet
NotReady(st) == ~st.ready

\* a getSetupInfo without the check of initialized
NeverInitialized(st) == FALSE

\* "if (initialized == TRUE)": the setup was done already
AlreadyInitialized(st) == st.initialized

\* the checks before the first query; go tells whether negotiation starts
SetupEntry(st, alias) ==
    IF TheMessage(st, alias).dirn = CAN_CONTROL
    THEN [st EXCEPT !.ret = -1, !.go = FALSE]
    ELSE LET s1 == SetLen(st, alias, 1)
         IN  IF NotReady(s1)
             THEN [SetStatus(s1, alias, STATUS_NOT_READY) EXCEPT !.ret = -1, !.go = FALSE]
             ELSE IF AlreadyInitialized(s1)
             THEN [SetStatus(s1, alias, STATUS_ALREADY_DONE)
                      EXCEPT !.ret = AlreadyInitializedReturn, !.go = FALSE]
             ELSE [s1 EXCEPT !.go = TRUE]

\* myCANMessage is set up for query k
SetupQuery(st, k) ==
    [st EXCEPT !.myCANMessage.dirn = CAN_MONITOR,
               !.myCANMessage.len = 0,
               !.myCANMessage.relative_address = QueryRCA(k)]

\* implMonitorSingle(&myCANMessage, FALSE)
RunQuery(st, b) ==
    LET r == implMonitorSingle(st.myCANMessage, FALSE,
                               Hw(st.port, st.monTimer, st.cmdTimer), b)
    IN  [st EXCEPT !.myCANMessage = r.message,
                   !.port = r.hw.port,
                   !.monTimer = r.hw.monTimer,
                   !.cmdTimer = r.hw.cmdTimer,
                   !.calls = Append(@, r.call),
                   !.txnRet = r.ret]

\* the timeout branch of query k
QueryFailed(st, k, alias) ==
    LET s1 == SetStatus(st, alias, STATUS_TIMEOUT)
    IN  [s1 EXCEPT !.registry = UnregisterLast(@, RollbackCount(k)),
                   !.ret = -1, !.go = FALSE, !.failedAt = k]

\* the bounds are rebuilt from the reply and the range is registered
QueryOk(st, k, alias) ==
    LET d == st.myCANMessage.data
        high == RebuildRCA(d, 4)
        low == RebuildRCA(d, 0)
    IN  CASE k = 1 ->
               LET r1 == amb_register_function(st.registry, low,
                                               BASE_AMBSI1_RESERVED - 1, "monitorMsg")
                   r2 == amb_register_function(r1.registry, LAST_AMBSI1_RESERVED + 1,
                                               high, "monitorMsg")
               IN  [st EXCEPT !.rca.highestSpecialMonitorRCA = high,
                              !.rca.lowestSpecialMonitorRCA = low,
                              !.registry = r2.registry]
          [] k = 2 ->
               [st EXCEPT !.rca.highestSpecialControlRCA = high,
                          !.rca.lowestSpecialControlRCA = low,
                          !.registry = amb_register_function(@, low, high,
                                                             "controlMsg").registry]
          [] k = 3 ->
               [st EXCEPT !.rca.highestMonitorRCA = high,
                          !.rca.lowestMonitorRCA = low,
                          !.registry = amb_register_function(@, low, high,
                                                             "monitorMsg").registry]
          [] OTHER ->
               LET s1 == [st EXCEPT !.rca.highestControlRCA = high,
                                    !.rca.lowestControlRCA = low,
                                    !.registry = amb_register_function(@, low, high,
                                                                       "controlMsg").registry,
                                    !.initialized = TRUE]
               IN  [SetStatus(s1, alias, STATUS_NO_ERROR) EXCEPT !.ret = 0, !.go = FALSE]

RECURSIVE Negotiate(_, _, _, _)
\* queries k..4 in order, run to a return
Negotiate(st, k, bs, alias) ==
    LET s1 == RunQuery(SetupQuery(st, k), bs[k])
    IN  IF s1.txnRet /= 0 THEN QueryFailed(s1, k, alias)
        ELSE IF k = 4 THEN QueryOk(s1, k, alias)
        ELSE Negotiate(QueryOk(s1, k, alias), k + 1, bs, alias)

\* one whole call of getSetupInfo
getSetupInfo(st, bs, alias) ==
    LET s1 == SetupEntry(st, alias)
    IN  IF s1.go THEN Negotiate(s1, 1, bs, alias) ELSE s1

(***************************************************************************)
(* The state of the program                                                *)
(***************************************************************************)
VARIABLES
    mainPc,         \* where main() is
    ready,          \* static bit ready
    initialized,    \* static bit initialized
    registry,       \* the callbacks registered with the AMB library, in order
    rca,            \* the eight RCA bounds
    myCANMessage,   \* the global CAN message of the negotiation
    port,           \* EPPS_INTERRUPT, EPPS_NWAIT, SPPS_SELECTIN, DP7, P7
    monTimer,       \* monTimer1 .. monTimer7
    cmdTimer,       \* cmdTimer1 .. cmdTimer6
    attempt,        \* the call of getSetupInfo that main is in
    last,           \* the call that returned in the step just taken, if any
    irqs            \* the number of CAN interrupts taken since reset

vars == << mainPc, ready, initialized, registry, rca, myCANMessage, port,
           monTimer, cmdTimer, attempt, last, irqs >>

Snapshot == [registry |-> registry, initialized |-> initialized, ready |-> ready,
             rca |-> rca, mainPc |-> mainPc]

SnapshotOf(st) == [registry |-> st.registry, initialized |-> st.initialized,
                   ready |-> st.ready, rca |-> st.rca, mainPc |-> mainPc]

\* the state a handler called with msg works on
StOf(msg) ==
    [ready |-> ready, initialized |-> initialized, registry |-> registry,
     rca |-> rca, myCANMessage |-> myCANMessage, port |-> port,
     monTimer |-> monTimer, cmdTimer |-> cmdTimer, message |-> msg,
     ret |-> 0, go |-> FALSE, txnRet |-> 0, calls |-> << >>, failedAt |-> 0]

\* the globals and the hardware become those of st
Becomes(st) ==
    /\ ready' = st.ready
    /\ initialized' = st.initialized
    /\ registry' = st.registry
    /\ rca' = st.rca
    /\ myCANMessage' = st.myCANMessage
    /\ port' = st.port
    /\ monTimer' = st.monTimer
    /\ cmdTimer' = st.cmdTimer

\* a call that returned: txns counts the link transactions it started, calls
\* holds those that ran in the step of the return, failedAt is the query of
\* the negotiation that timed out (0 when none did)
Returned(ctx, handler, in, out, ret, txns, calls, chain, failedAt, pre, post) ==
    [ctx |-> ctx, handler |-> handler, in |-> in, out |-> out, ret |-> ret,
     txns |-> txns, calls |-> calls, chain |-> chain, failedAt |-> failedAt,
     pre |-> pre, post |-> post]

NoMsg == Msg(CAN_MONITOR, 0, 0, ZeroData)

NoRca == Rca(0, 0, 0, 0, 0, 0, 0, 0)

NoSnapshot == [registry |-> << >>, initialized |-> FALSE, ready |-> FALSE,
               rca |-> NoRca, mainPc |-> "init"]

NoAttempt == [k |-> 0, txns |-> 0, pre |-> NoSnapshot, in |-> NoMsg]

NoCall == Returned("none", "none", NoMsg, NoMsg, 0, 0, << >>, << >>, 0,
                   NoSnapshot, NoSnapshot)

\* the CAN interrupt is enabled from amb_start() on
IntEnabled ==
    mainPc \in {"set_ready", "loop", "call", "entry", "q_begin", "q_txn", "q_ok",
                "q_fail", "ret", "select", "idle"}

\* main is between asserting and de-asserting EPPS_INTERRUPT
MainInTransaction(pc) == pc = "q_txn"

(***************************************************************************)
(* ARCOM's behaviours                                                      *)
(***************************************************************************)
LateAt(S) == [k \in 1..6 |-> IF k \in S THEN MAX_TIMEOUT ELSE 0]

\* the ranges ARCOM reports, as the comments of getSetupInfo give them
NominalRange(k) ==
    CASE k = 1 -> << 131074, 135167 >>
      [] k = 2 -> << 135168, 139263 >>
      [] k = 3 -> << 1, 65535 >>
      [] OTHER -> << 65536, 131071 >>

OkReply(k) ==
    Behaviour(LateAt({}), 0, 8, EncodeRange(NominalRange(k)[1], NominalRange(k)[2]))

ReplyBytes == << 177, 178, 179, 180, 181, 182, 183, 184 >>

RequestBytes == << 161, 162, 163, 164, 165, 166, 167, 168 >>

\* the lengths ARCOM may send in the reply of a monitor transaction
RLens == (0..MaxLen) \cup {MAX_CAN_MSG_PAYLOAD, MAX_CAN_MSG_PAYLOAD + 1}

\* the strobe waits of phases 1..6 that expire in one transaction: none, one
\* of them, or all of them
LatePhases == {{}} \cup {{k} : k \in 1..6} \cup {1..6}

\* one wait of a transaction expires (a phase or a payload byte), or ARCOM is
\* dead; nothing is read after the abort on address byte 1
Behaviours ==
    {b \in {Behaviour(LateAt(S), lb, rl, ReplyBytes) :
               S \in LatePhases, lb \in 0..MaxLen, rl \in RLens} :
        /\ (b.lateByte /= 0 => b.strobe = LateAt({}))
        /\ (b.strobe[1] >= MAX_TIMEOUT => b.rlen = 0)}

\* the ways a negotiation query fails
FailBehaviours ==
    {Behaviour(LateAt({1}), 0, 0, ReplyBytes), Behaviour(LateAt({6}), 0, 0, ReplyBytes)}

\* ARCOM's answers to query k
QueryBehaviours(k) == {OkReply(k)} \cup FailBehaviours

\* ARCOM's answers to the four queries of one uninterrupted negotiation
QuerySeqs ==
    {[k \in 1..4 |-> IF k = failAt THEN fb ELSE OkReply(k)] :
        failAt \in 0..4, fb \in FailBehaviours}

(***************************************************************************)
(* main()                                                                  *)
(***************************************************************************)
Init ==
    /\ mainPc = "init"
    /\ ready = FALSE
    /\ initialized = FALSE
    /\ registry = << >>
    /\ rca = NoRca
    /\ myCANMessage = NoMsg
    /\ port = [EPPS_INTERRUPT |-> 0, EPPS_NWAIT |-> 0, SPPS_SELECTIN |-> 0,
               DP7 |-> DP7_RECEIVE, P7 |-> 0]
    /\ monTimer = [k \in 1..7 |-> 0]
    /\ cmdTimer = [k \in 1..6 |-> 0]
    /\ attempt = NoAttempt
    /\ last = NoCall
    /\ irqs = 0

RegPc(i) == CASE i = 1 -> "reg1" [] i = 2 -> "reg2" [] i = 3 -> "reg3" [] OTHER -> "reg4"

\* a step of main in which no call returns
MainStep(pc) ==
    /\ mainPc' = pc
    /\ last' = NoCall

\* amb_init_slave((void *) cb_memory)
MainInitSlave ==
    /\ mainPc = "init"
    /\ \E ok \in BOOLEAN : MainStep(IF ok THEN RegPc(1) ELSE "halted")
    /\ registry' = << >>
    /\ UNCHANGED << ready, initialized, rca, myCANMessage, port, monTimer,
                    cmdTimer, attempt >>

\* what a boot registration may give: the library's result, or a refusal
RegisterOutcomes(reg, low, high, func) ==
    {amb_register_function(reg, low, high, func), RegResult(reg, -1)}

\* a main that goes on whatever the i-th registration returned
AfterRegisterUnchecked(ret, i) == IF i = 4 THEN "ports" ELSE RegPc(i + 1)

\* "if (amb_register_function(...) != 0) return;": where main goes after the
\* i-th registration
AfterRegister(ret, i) ==
    IF ret /= 0 THEN "halted" ELSE IF i = 4 THEN "ports" ELSE RegPc(i + 1)

\* the i-th static amb_register_function of main
MainRegisterStatic(i) ==
    /\ mainPc = RegPc(i)
    /\ LET e == StaticEntry(i)
       IN  \E r \in RegisterOutcomes(registry, e.low, e.high, e.func) :
               /\ registry' = r.registry
               /\ MainStep(AfterRegister(r.ret, i))
    /\ UNCHANGED << ready, initialized, rca, myCANMessage, port, monTimer,
                    cmdTimer, attempt >>

\* "Initialize ports for communication" and SPPS_SELECTIN = 1
MainInitPorts ==
    /\ mainPc = "ports"
    /\ port' = [port EXCEPT !.DP7 = DP7_TRANSMIT, !.EPPS_INTERRUPT = 0,
                            !.EPPS_NWAIT = 0, !.SPPS_SELECTIN = 1]
    /\ MainStep("start")
    /\ UNCHANGED << ready, initialized, registry, rca, myCANMessage, monTimer,
                    cmdTimer, attempt >>

\* amb_start()
MainStart ==
    /\ mainPc = "start"
    /\ MainStep("set_ready")
    /\ UNCHANGED << ready, initialized, registry, rca, myCANMessage, port,
                    monTimer, cmdTimer, attempt >>

\* ready = TRUE
MainSetReady ==
    /\ mainPc = "set_ready"
    /\ ready' = TRUE
    /\ MainStep("loop")
    /\ UNCHANGED << initialized, registry, rca, myCANMessage, port, monTimer,
                    cmdTimer, attempt >>

\* a loop that never ends
LoopForever(ini) == "call"

\* "while (!initialized)": where main goes from the head of the loop
LoopTest(ini) == IF ini THEN "select" ELSE "call"

\* while (!initialized)
MainLoop ==
    /\ mainPc = "loop"
    /\ MainStep(LoopTest(initialized))
    /\ UNCHANGED << ready, initialized, registry, rca, myCANMessage, port,
                    monTimer, cmdTimer, attempt >>

\* the fake GET_SETUP_INFO request is written into myCANMessage
MainCall ==
    /\ mainPc = "call"
    /\ myCANMessage' = [myCANMessage EXCEPT !.dirn = CAN_MONITOR, !.len = 0,
                                            !.relative_address = GET_SETUP_INFO]
    /\ MainStep("entry")
    /\ UNCHANGED << ready, initialized, registry, rca, port, monTimer, cmdTimer,
                    attempt >>

\* main's call of getSetupInfo returns with state st
MainReturns(st) ==
    /\ Becomes(st)
    /\ mainPc' = "ret"
    /\ last' = Returned("main", "getSetupInfo", attempt'.in, st.myCANMessage,
                        st.ret, attempt'.txns, << >>, << "getSetupInfo" >>,
                        st.failedAt, attempt'.pre, SnapshotOf(st))

\* getSetupInfo(&myCANMessage) up to the first query
MainEntry ==
    /\ mainPc = "entry"
    /\ LET s1 == SetupEntry(StOf(myCANMessage), TRUE)
       IN  /\ attempt' = [k |-> 1, txns |-> 0, pre |-> Snapshot, in |-> myCANMessage]
           /\ IF s1.go
              THEN Becomes(s1) /\ MainStep("q_begin")
              ELSE MainReturns(s1)

\* query k is set up and implMonitorSingle asserts EPPS_INTERRUPT
MainQueryBegin ==
    /\ mainPc = "q_begin"
    /\ myCANMessage' = SetupQuery(StOf(myCANMessage), attempt.k).myCANMessage
    /\ port' = [port EXCEPT !.EPPS_INTERRUPT = 1, !.DP7 = DP7_TRANSMIT]
    /\ attempt' = [attempt EXCEPT !.txns = @ + 1]
    /\ MainStep("q_txn")
    /\ UNCHANGED << ready, initialized, registry, rca, monTimer, cmdTimer >>

\* the handshakes of implMonitorSingle(&myCANMessage, FALSE) up to its return
MainQueryTxn(b) ==
    /\ mainPc = "q_txn"
    /\ LET s1 == RunQuery(StOf(myCANMessage), b)
       IN  /\ Becomes(s1)
           /\ mainPc' = IF s1.txnRet /= 0 THEN "q_fail" ELSE "q_ok"
           /\ last' = Returned("main", "implMonitorSingle", myCANMessage,
                               s1.myCANMessage, s1.txnRet, 1, s1.calls,
                               << "implMonitorSingle" >>, 0, Snapshot,
                               SnapshotOf(s1))
    /\ UNCHANGED attempt

\* the bounds of query k are rebuilt and registered
MainQueryOk ==
    /\ mainPc = "q_ok"
    /\ LET s1 == QueryOk(StOf(myCANMessage), attempt.k, TRUE)
       IN  IF attempt.k = 4
           THEN UNCHANGED attempt /\ MainReturns(s1)
           ELSE /\ Becomes(s1)
                /\ attempt' = [attempt EXCEPT !.k = @ + 1]
                /\ MainStep("q_begin")

\* the timeout of query k: status 7, rollback, return -1
MainQueryFail ==
    /\ mainPc = "q_fail"
    /\ UNCHANGED attempt
    /\ MainReturns(QueryFailed(StOf(myCANMessage), attempt.k, TRUE))

\* "if (getSetupInfo(&myCANMessage))" and the sleep
MainAfterCall ==
    /\ mainPc = "ret"
    /\ MainStep("loop")
    /\ UNCHANGED << ready, initialized, registry, rca, myCANMessage, port,
                    monTimer, cmdTimer, attempt >>

\* SPPS_SELECTIN = 0, then the temperature loop
MainSelectIn ==
    /\ mainPc = "select"
    /\ port' = [port EXCEPT !.SPPS_SELECTIN = 0]
    /\ MainStep("idle")
    /\ UNCHANGED << ready, initialized, registry, rca, myCANMessage, monTimer,
                    cmdTimer, attempt >>

(***************************************************************************)
(* The handlers the AMB library calls from the CAN interrupt.  A handler   *)
(* runs to its return before main or another handler goes on.              *)
(***************************************************************************)
IsrGetSetupInfo(m, bs) ==
    /\ IntEnabled
    /\ Registered(registry, m.relative_address, "getSetupInfo")
    /\ LET s1 == getSetupInfo(StOf(m), bs, FALSE)
       IN  /\ Becomes(s1)
           /\ last' = Returned("isr", "getSetupInfo", m, s1.message, s1.ret,
                               Len(s1.calls), s1.calls, << "getSetupInfo" >>,
                               s1.failedAt, Snapshot, SnapshotOf(s1))
    /\ UNCHANGED << mainPc, attempt >>

IsrRouter(m, func, r) ==
    /\ port' = r.hw.port
    /\ monTimer' = r.hw.monTimer
    /\ cmdTimer' = r.hw.cmdTimer
    /\ last' = Returned("isr", func, m, r.message, r.ret, Len(r.calls), r.calls,
                        r.chain, 0, Snapshot, Snapshot)
    /\ UNCHANGED << mainPc, ready, initialized, registry, rca, myCANMessage,
                    attempt >>

IsrMonitorMsg(m, b1, b2) ==
    /\ IntEnabled
    /\ Registered(registry, m.relative_address, "monitorMsg")
    /\ IsrRouter(m, "monitorMsg", monitorMsg(m, Hw(port, monTimer, cmdTimer), b1, b2))

IsrControlMsg(m, b1, b2) ==
    /\ IntEnabled
    /\ Registered(registry, m.relative_address, "controlMsg")
    /\ IsrRouter(m, "controlMsg", controlMsg(m, Hw(port, monTimer, cmdTimer), b1, b2))

IsrGetReservedMsg(m, pins) ==
    /\ IntEnabled
    /\ Registered(registry, m.relative_address, "getReservedMsg")
    /\ IsrRouter(m, "getReservedMsg",
                 getReservedMsg(m, Hw(port, monTimer, cmdTimer), pins, ready,
                                initialized))

\* the CAN stack has sent what the handler left in the message
CanTransmit ==
    /\ last.ctx = "isr"
    /\ last' = NoCall
    /\ UNCHANGED << mainPc, ready, initialized, registry, rca, myCANMessage,
                    port, monTimer, cmdTimer, attempt >>

(***************************************************************************)
(* Spec: the firmware from reset, with the CAN interrupt                   *)
(***************************************************************************)
\* the setup requests the bus sends while the firmware starts
SysSetupMsgs ==
    {Msg(d, 0, GET_SETUP_INFO, RequestBytes) : d \in {CAN_MONITOR, CAN_CONTROL}}

\* a monitor request to 0x20010 and a command to 0x21000
SysMonitorMsg == Msg(CAN_MONITOR, 0, 131088, RequestBytes)

SysControlMsg == Msg(CAN_CONTROL, 0, 135168, RequestBytes)

SysBehaviour == Behaviour(LateAt({}), 0, 1, ReplyBytes)

MainNext ==
    \/ MainInitSlave
    \/ \E i \in 1..4 : MainRegisterStatic(i)
    \/ MainInitPorts
    \/ MainStart
    \/ MainSetReady
    \/ MainLoop
    \/ MainCall
    \/ MainEntry
    \/ MainQueryBegin
    \/ \E b \in QueryBehaviours(attempt.k) : MainQueryTxn(b)
    \/ MainQueryOk
    \/ MainQueryFail
    \/ MainAfterCall
    \/ MainSelectIn

IsrNext ==
    \/ \E m \in SysSetupMsgs, bs \in QuerySeqs : IsrGetSetupInfo(m, bs)
    \/ IsrMonitorMsg(SysMonitorMsg, SysBehaviour, SysBehaviour)
    \/ IsrControlMsg(SysControlMsg, SysBehaviour, SysBehaviour)

Next ==
    \/ MainNext /\ UNCHANGED irqs
    \/ irqs < MaxIrq /\ IsrNext /\ irqs' = irqs + 1
    \/ CanTransmit /\ UNCHANGED irqs

Spec == Init /\ [][Next]_vars

(***************************************************************************)
(* SpecTxn: the firmware in its steady state, after main's negotiation     *)
(* succeeded with the nominal ranges and main sits in the temperature      *)
(* loop.  The bus delivers requests to the negotiated ranges one after the *)
(* other, irqs counting them, and ARCOM behaves in every way Behaviours    *)
(* allows.                                                                 *)
(***************************************************************************)
NominalRca ==
    Rca(NominalRange(1)[1], NominalRange(1)[2], NominalRange(2)[1], NominalRange(2)[2],
        NominalRange(3)[1], NominalRange(3)[2], NominalRange(4)[1], NominalRange(4)[2])

\* the registry after the boot registrations and one negotiation with bounds r
FullRegistry(r) ==
    << StaticEntry(1), StaticEntry(2), StaticEntry(3), StaticEntry(4),
       Entry(r.lowestSpecialMonitorRCA, BASE_AMBSI1_RESERVED - 1, "monitorMsg"),
       Entry(LAST_AMBSI1_RESERVED + 1, r.highestSpecialMonitorRCA, "monitorMsg"),
       Entry(r.lowestSpecialControlRCA, r.highestSpecialControlRCA, "controlMsg"),
       Entry(r.lowestMonitorRCA, r.highestMonitorRCA, "monitorMsg"),
       Entry(r.lowestControlRCA, r.highestControlRCA, "controlMsg") >>

TxnInit ==
    /\ mainPc = "idle"
    /\ ready = TRUE
    /\ initialized = TRUE
    /\ registry = FullRegistry(NominalRca)
    /\ rca = NominalRca
    /\ myCANMessage = Msg(CAN_CONTROL, 0, GET_CONTROL_RCAS,
                          [OkReply(4).bytes EXCEPT ![1] = STATUS_NO_ERROR])
    /\ port = [EPPS_INTERRUPT |-> 0, EPPS_NWAIT |-> 0, SPPS_SELECTIN |-> 0,
               DP7 |-> DP7_TRANSMIT, P7 |-> 0]
    /\ monTimer = [k \in 1..7 |-> MAX_TIMEOUT]
    /\ cmdTimer = [k \in 1..6 |-> 0]
    /\ attempt = [k |-> 4, txns |-> 4,
                  pre |-> [registry |-> SubSeq(FullRegistry(NominalRca), 1, 4),
                           initialized |-> FALSE, ready |-> TRUE, rca |-> NoRca,
                           mainPc |-> "entry"],
                  in |-> Msg(CAN_MONITOR, 0, GET_SETUP_INFO, ZeroData)]
    /\ last = NoCall
    /\ irqs = 0

\* requests to 0x0ABCD, in the monitor range, and to 0x1ABCD, in the control range
TxnMsgs ==
    {Msg(d, l, a, RequestBytes) :
        d \in {CAN_MONITOR, CAN_CONTROL}, l \in 0..MaxLen, a \in {43981, 109517}}

\* ARCOM's behaviours in the second transaction of m, if there is one
SecondBehaviours(m, b1) ==
    IF /\ m.dirn = CAN_MONITOR
       /\ implMonitorSingle(m, TRUE, Hw(port, monTimer, cmdTimer), b1).ret /= 0
    THEN Behaviours
    ELSE {b1}

TxnNext ==
    \/ /\ last.ctx = "none"
       /\ irqs < MaxMsgs
       /\ \E m \in TxnMsgs, b1 \in Behaviours :
             \E b2 \in SecondBehaviours(m, b1) : IsrMonitorMsg(m, b1, b2)
       /\ irqs' = irqs + 1
    \/ /\ last.ctx = "none"
       /\ irqs < MaxMsgs
       /\ \E m \in TxnMsgs, b1 \in Behaviours : IsrControlMsg(m, b1, b1)
       /\ irqs' = irqs + 1
    \/ CanTransmit /\ UNCHANGED irqs

SpecTxn == TxnInit /\ [][TxnNext]_vars

(***************************************************************************)
(* Properties of one dispatched message (SpecTxn).  last is the handler    *)
(* call that has just returned, with the transactions it ran.              *)
(***************************************************************************)
\* last is the return of a router handler for a message of direction d
Routed(d) ==
    /\ last.ctx = "isr"
    /\ last.handler \in {"monitorMsg", "controlMsg"}
    /\ last.in.dirn = d

\* how many of last's transactions ran function fn
NCalls(fn) == Cardinality({i \in 1..Len(last.calls) : last.calls[i].fn = fn})

\* the message after call c is the empty reply in the non-reply direction
Degraded(out) == out.len = 0 /\ out.dirn = CAN_CONTROL

\* C1 (timeout containment): whenever a monitor transaction that is supposed
\* to send a reply sees a handshake wait expire, in any phase (the first
\* address byte included), the message it leaves has len = 0 and
\* dirn = CAN_CONTROL, so that no payload reaches the bus.
C1_TimeoutContainment ==
    \A i \in 1..Len(last.calls) :
        LET c == last.calls[i]
        IN  (c.fn = "implMonitorSingle" /\ c.sendReply /\ c.expired /= {})
                => Degraded(c.out)

\* C2 (retry success): when the first monitor transaction of a
\* Monitor-direction message fails and the second succeeds, the handler
\* returns 0 and the reply has dirn = CAN_MONITOR and the length and the
\* payload bytes received in the second transaction.
C2_RetrySuccess ==
    (/\ Routed(CAN_MONITOR)
     /\ Len(last.calls) = 2
     /\ last.calls[1].ret /= 0
     /\ last.calls[2].ret = 0)
        => /\ last.ret = 0
           /\ last.out.dirn = CAN_MONITOR
           /\ last.out.len = last.calls[2].rlen
           /\ \A j \in 1..last.calls[2].rlen :
                 last.out.data[j] = last.calls[2].rbytes[j]

\* C3 (degraded reply): when both monitor transactions of a
\* Monitor-direction message fail, wherever they fail (the first address
\* byte included), the handler returns -1 and the message has len = 0 and
\* dirn = CAN_CONTROL.
C3_DegradedReply ==
    (/\ Routed(CAN_MONITOR)
     /\ Len(last.calls) = 2
     /\ last.calls[1].ret /= 0
     /\ last.calls[2].ret /= 0)
        => /\ last.ret = -1
           /\ Degraded(last.out)

\* C4 (retry bound): for one Monitor-direction message the monitor
\* transaction runs once if the first run returns 0 and exactly twice if it
\* fails; it never runs a third time, and no command transaction runs.
C4_RetryBound ==
    Routed(CAN_MONITOR)
        => /\ Len(last.calls) >= 1
           /\ NCalls("implMonitorSingle") = Len(last.calls)
           /\ last.calls[1].ret = 0 => Len(last.calls) = 1
           /\ last.calls[1].ret /= 0 => Len(last.calls) = 2

\* a message whose first transaction failed got its second and last one,
\* which failed too
C4_Witness ==
    /\ Routed(CAN_MONITOR)
    /\ Len(last.calls) = 2
    /\ last.calls[1].ret = -1
    /\ last.calls[2].ret = -1

\* C5 (control: no retry): for one Control-direction message, whether it
\* enters through controlMsg or through monitorMsg, the command transaction
\* runs exactly once and the monitor transaction never, also when the
\* command transaction returns -1.
C5_ControlNoRetry ==
    Routed(CAN_CONTROL)
        => /\ Len(last.calls) = 1
           /\ last.calls[1].fn = "implControlSingle"
           /\ last.ret = last.calls[1].ret

\* a command that entered through monitorMsg and whose only transaction
\* returned -1
C5_Witness ==
    /\ Routed(CAN_CONTROL)
    /\ last.chain = << "monitorMsg", "controlMsg" >>
    /\ Len(last.calls) = 1
    /\ last.ret = -1

(***************************************************************************)
(* Properties of the negotiation and of the registry (Spec)                *)
(***************************************************************************)
\* last is the return of getSetupInfo
SetupReturned == last.handler = "getSetupInfo" /\ last.ctx \in {"main", "isr"}

\* C6 (rollback atomicity): when a negotiation attempt times out at query
\* k in 1..4, the registry at the return is the registry at the start of
\* the attempt, initialized is FALSE, the status byte is 7 and the return
\* value is -1.
C6_RollbackAtomicity ==
    (SetupReturned /\ last.failedAt \in 1..4)
        => /\ last.post.registry = last.pre.registry
           /\ last.post.initialized = FALSE
           /\ last.out.data[1] = STATUS_TIMEOUT
           /\ last.ret = -1

\* C7 (initialized means fully registered): in every reachable state,
\* preemption of main by the CAN interrupt included, initialized = TRUE
\* implies that the registry holds the four boot entries followed by the
\* five entries of one negotiation, built from the stored bounds.
C7_InitializedFullyRegistered ==
    initialized => registry = FullRegistry(rca)

\* C8 (one transaction at a time): no handler of the CAN interrupt starts a
\* link transaction, and so no second negotiation, while main is in the
\* middle of a transaction of its negotiation.
C8_OneTransactionAtATime ==
    (last.ctx = "isr" /\ last.txns > 0) => ~MainInTransaction(last.pre.mainPc)

\* C9 (idempotent setup): a Monitor-direction setup request received while
\* initialized = TRUE is answered with the single status byte 5 (len = 1),
\* starts no link transaction and leaves the registry and the stored
\* bounds as they were.
C9_IdempotentSetup ==
    (SetupReturned /\ last.in.dirn = CAN_MONITOR /\ last.pre.initialized)
        => /\ last.out.len = 1
           /\ last.out.data[1] = STATUS_ALREADY_DONE
           /\ last.txns = 0
           /\ last.calls = << >>
           /\ last.post.registry = last.pre.registry
           /\ last.post.rca = last.pre.rca
           /\ last.post.initialized

\* the CAN interrupt delivered a setup request after main's negotiation
\* had succeeded, and the handler has returned
C9_Witness ==
    /\ SetupReturned
    /\ last.ctx = "isr"
    /\ last.in.dirn = CAN_MONITOR
    /\ last.pre.initialized
    /\ last.pre.registry = FullRegistry(NominalRca)
    /\ last.out.data[1] = STATUS_ALREADY_DONE

\* C10 (already initialized is a success): getSetupInfo called with a
\* Monitor-direction message while initialized = TRUE returns 0, with
\* status byte 5.
C10_AlreadyInitializedSuccess ==
    (SetupReturned /\ last.in.dirn = CAN_MONITOR /\ last.pre.initialized)
        => /\ last.ret = 0
           /\ last.out.data[1] = STATUS_ALREADY_DONE

\* C11 (not ready): a Monitor-direction setup request handled while
\* ready = FALSE is answered with the single status byte 6 (len = 1) and the
\* return code -1, starts no link transaction and leaves the registry and
\* the initialized flag as they were.
C11_NotReady ==
    (SetupReturned /\ last.in.dirn = CAN_MONITOR /\ ~last.pre.ready)
        => /\ last.out.len = 1
           /\ last.out.data[1] = STATUS_NOT_READY
           /\ last.ret = -1
           /\ last.txns = 0
           /\ last.calls = << >>
           /\ last.post.registry = last.pre.registry
           /\ last.post.initialized = last.pre.initialized

\* the CAN interrupt delivered a setup request between amb_start and
\* ready = TRUE
C11_Witness ==
    /\ SetupReturned
    /\ last.ctx = "isr"
    /\ last.in.dirn = CAN_MONITOR
    /\ ~last.pre.ready
    /\ last.pre.mainPc = "set_ready"
    /\ last.out.data[1] = STATUS_NOT_READY

(***************************************************************************)
(* Properties of one link transaction (SpecTxn)                            *)
(***************************************************************************)
\* the transactions that have just returned
Calls == {last.calls[i] : i \in 1..Len(last.calls)}

\* C12 (cleanup on every exit path): whenever implMonitorSingle or
\* implControlSingle returns, by success, by the timeout of the first
\* address byte, by a reply-length error or by the timeout of a payload
\* byte, the data bus is in output mode (DP7 = 0xFF) and the lines
\* EPPS_INTERRUPT and EPPS_NWAIT are 0.
C12_CleanupOnExit ==
    \A c \in Calls :
        /\ c.port.DP7 = DP7_TRANSMIT
        /\ c.port.EPPS_INTERRUPT = 0
        /\ c.port.EPPS_NWAIT = 0

\* a message whose first transaction returned early at the first address
\* byte and whose second one returned after a payload byte timed out
C12_Witness ==
    /\ Routed(CAN_MONITOR)
    /\ Len(last.calls) = 2
    /\ last.calls[1].expired = {1}
    /\ last.calls[1].port.DP7 = DP7_TRANSMIT
    /\ 7 \in last.calls[2].expired
    /\ last.calls[2].port.EPPS_INTERRUPT = 0

\* C13 (cross-dispatch without a loop): a Control-direction message given
\* to monitorMsg is handled by implControlSingle exactly once, a
\* Monitor-direction message given to controlMsg is handled by monitorMsg
\* and implMonitorSingle; the handlers redirect at most once per message
\* and never enter a handler twice, also when the first monitor
\* transaction has failed and left the message in the Control direction.
C13_CrossDispatch ==
    (last.ctx = "isr" /\ last.handler \in {"monitorMsg", "controlMsg"})
        => LET own == IF last.in.dirn = CAN_CONTROL THEN "controlMsg"
                      ELSE "monitorMsg"
               impl == IF last.in.dirn = CAN_CONTROL THEN "implControlSingle"
                       ELSE "implMonitorSingle"
           IN  /\ last.chain = IF last.handler = own THEN << own >>
                                ELSE << last.handler, own >>
               /\ Len(last.calls) >= 1
               /\ \A c \in Calls : c.fn = impl
               /\ last.in.dirn = CAN_CONTROL => Len(last.calls) = 1

\* a monitor request given to controlMsg whose first transaction failed and
\* flipped the direction, and whose retry ran the monitor transaction again
C13_Witness ==
    /\ last.ctx = "isr"
    /\ last.handler = "controlMsg"
    /\ last.in.dirn = CAN_MONITOR
    /\ last.chain = << "controlMsg", "monitorMsg" >>
    /\ Len(last.calls) = 2
    /\ last.calls[1].out.dirn = CAN_CONTROL
    /\ last.calls[2].fn = "implMonitorSingle"

(***************************************************************************)
(* Properties of main and of the registry (Spec)                           *)
(***************************************************************************)
\* C14 (static handlers are never unregistered): once ready = TRUE, after
\* any sequence of failed and successful negotiation attempts, attempts
\* with a refused registration and attempts interleaved with a getSetupInfo
\* of the CAN interrupt included, the four boot entries (ambient
\* temperature, version info, reserved range, setup info) are the first
\* four entries of the registry.
C14_StaticHandlersKept ==
    ready => /\ Len(registry) >= 4
             /\ \A i \in 1..4 : registry[i] = StaticEntry(i)

(***************************************************************************)
(* SpecDiag: the firmware in its steady state, as in SpecTxn, with the     *)
(* diagnostic requests of the reserved range.  A few link transactions     *)
(* come first, then diagnostic reads, possibly one right after the other.  *)
(***************************************************************************)
\* the levels ARCOM may hold the input lines at
Pins == [SPPC_NSELECT : {0, 1}, SPPC_INIT : {0, 1}]

\* reads of the five diagnostic addresses and of 0x2003F, which has none
DiagMsgs ==
    {Msg(CAN_MONITOR, 0, a, RequestBytes) :
        a \in (GET_MON_TIMERS1_RCA..GET_PPORT_STATE) \cup {LAST_AMBSI1_RESERVED}}

\* ARCOM answers with one byte; no strobe wait, one of them or all of them
\* expire
DiagBehaviours == {Behaviour(LateAt(S), 0, 1, ReplyBytes) : S \in LatePhases}

DiagNext ==
    \/ /\ last.ctx = "none"
       /\ irqs < MaxMsgs
       /\ \E b \in DiagBehaviours : IsrMonitorMsg(SysMonitorMsg, b, b)
       /\ irqs' = irqs + 1
    \/ /\ last.ctx = "none"
       /\ irqs < MaxMsgs
       /\ \E b \in DiagBehaviours : IsrControlMsg(SysControlMsg, b, b)
       /\ irqs' = irqs + 1
    \/ /\ last.ctx = "none" \/ last.handler = "getReservedMsg"
       /\ irqs < MaxMsgs + 2
       /\ \E m \in DiagMsgs, pins \in Pins : IsrGetReservedMsg(m, pins)
       /\ irqs' = irqs + 1
    \/ CanTransmit /\ UNCHANGED irqs

SpecDiag == TxnInit /\ [][DiagNext]_vars

\* a step in which getReservedMsg runs
ReservedRead == last'.handler = "getReservedMsg" /\ irqs' = irqs + 1

\* the step reads the address the step before it read
RepeatedRead ==
    /\ ReservedRead
    /\ last.handler = "getReservedMsg"
    /\ last'.in.relative_address = last.in.relative_address

\* nothing but the reply message changes
ReservedFrame ==
    UNCHANGED << mainPc, ready, initialized, registry, rca, myCANMessage, port,
                 monTimer, cmdTimer, attempt >>

\* the bytes of a reply that report the input lines ARCOM drives
InputLineByte(a, j) == a = GET_PPORT_STATE /\ j \in {1, 3}

ResetPort ==
    [EPPS_INTERRUPT |-> 0, EPPS_NWAIT |-> 0, SPPS_SELECTIN |-> 0,
     DP7 |-> DP7_RECEIVE, P7 |-> 0]

\* C16 (startup fail-stop): if amb_init_slave or one of the four static
\* amb_register_function calls of main fails, main returns at once:
\* amb_start is never called (no handler ever runs), ready is never set, no
\* negotiation is attempted and no link transaction starts; main goes on to
\* the ports only with all four static entries registered.
C16_StartupFailStop ==
    /\ mainPc = "halted"
          => /\ ~ready
             /\ ~initialized
             /\ ~IntEnabled
             /\ irqs = 0
             /\ last = NoCall
             /\ attempt = NoAttempt
             /\ port = ResetPort
             /\ \A k \in 1..7 : monTimer[k] = 0
             /\ Len(registry) < 4
    /\ mainPc = "ports"
          => registry = << StaticEntry(1), StaticEntry(2), StaticEntry(3),
                           StaticEntry(4) >>

\* main has returned because the registration of getSetupInfo was refused
C16_Witness ==
    /\ mainPc = "halted"
    /\ registry = << StaticEntry(1), StaticEntry(2), StaticEntry(3) >>
    /\ ~ready

(***************************************************************************)
(* SpecLive: Spec with the scheduling the firmware relies on.  main always *)
(* gets to run again, and from some time on ARCOM answers the queries of   *)
(* main's negotiation in time.                                             *)
(***************************************************************************)
\* a query of main's negotiation has timed out
MainQueryTimedOut == mainPc = "q_fail"

\* main has a next statement: it has neither returned nor reached the
\* temperature loop (the states in which a step of MainNext is enabled)
MainCanRun == mainPc \notin {"halted", "idle"}

\* WF_vars(MainNext /\ UNCHANGED irqs), written with MainCanRun for
\* ENABLED <<MainNext /\ UNCHANGED irqs>>_vars
MainFair ==
    \/ []<>(~MainCanRun)
    \/ []<><<MainNext /\ UNCHANGED irqs>>_vars

SpecLive ==
    /\ Init
    /\ [][Next]_vars
    /\ MainFair
    /\ <>[](~MainQueryTimedOut)

\* C17 (negotiation is retried until it succeeds): once ready = TRUE main
\* calls getSetupInfo again after every failed attempt, without a limit,
\* so that, ARCOM eventually answering the four queries of an attempt,
\* initialized becomes TRUE and main reaches the temperature loop; and
\* main is never in that loop while initialized = FALSE.
C17_RetriedUntilSuccess ==
    /\ [](mainPc \in {"select", "idle"} => initialized)
    /\ ready ~> (initialized /\ mainPc = "idle")

\* main has negotiated the ranges itself and sits in the temperature loop
C17_Witness ==
    /\ mainPc = "idle"
    /\ initialized
    /\ irqs = 0
    /\ attempt.txns = 4
    /\ registry = FullRegistry(rca)

(***************************************************************************)
(* Properties of the phases of a link transaction (SpecTxn)                *)
(***************************************************************************)
\* C18 (address-phase timeout is fatal): in implMonitorSingle and in
\* implControlSingle, if the strobe wait of address byte i (i = 1, 2, 3 or
\* 4) counts down to zero, the transaction returns -1 at once and no later
\* byte (address, length or payload) is put on the bus or acknowledged.
C18_AddressTimeoutFatal ==
    \A c \in Calls : \A i \in 1..4 :
        i \in c.expired => /\ c.ret = -1
                            /\ Len(c.sent) <= i
                            /\ c.nread = 0

\* C19 (shared send phase): in a control and in a monitor transaction the
\* bytes put on the data bus are address byte 0 (least significant), 1, 2,
\* 3 and then the payload length of the message; at the fifth
\* acknowledgment pulse of a monitor transaction the bus carries the
\* message length, not the last address byte.
C19_SharedSendPhase ==
    \A c \in Calls :
        1 \notin c.expired
            => /\ Len(c.sent) >= 5
               /\ \A i \in 1..4 :
                     c.sent[i] = ByteOf(c.in.relative_address, i - 1)
               /\ c.sent[5] = c.in.len

\* C20 (bad reply length): in implMonitorSingle, if the strobe wait of the
\* reply length times out or the length received is greater than 8, no
\* payload byte is read (the data of the message is unchanged, no payload
\* handshake runs), the resulting length is 0 and the function returns -1;
\* if the strobe wait of a payload byte times out, the bytes after it are
\* not read and the function returns -1.
C20_BadReplyLength ==
    \A c \in Calls :
        (c.fn = "implMonitorSingle" /\ 1 \notin c.expired)
            => /\ (6 \in c.expired \/ c.rlen > MAX_CAN_MSG_PAYLOAD)
                     => /\ c.nread = 0
                        /\ 7 \notin c.expired
                        /\ c.out.data = c.in.data
                        /\ c.out.len = 0
                        /\ c.ret = -1
               /\ 7 \in c.expired
                     => /\ c.ret = -1
                        /\ c.nread <= c.rlen
                        /\ \A j \in (c.nread + 1)..8 :
                              c.out.data[j] = c.in.data[j]
               /\ c.ret = 0 => c.nread = c.rlen

\* a message whose first transaction got the reply length 9 and whose
\* second one got 8 and lost the first payload byte
C20_Witness ==
    /\ Routed(CAN_MONITOR)
    /\ Len(last.calls) = 2
    /\ last.calls[1].rlen = MAX_CAN_MSG_PAYLOAD + 1
    /\ last.calls[1].ret = -1
    /\ last.calls[2].rlen = MAX_CAN_MSG_PAYLOAD
    /\ 7 \in last.calls[2].expired
    /\ last.calls[2].nread = 1

Bank(fn) == IF fn = "implMonitorSingle" THEN 1..7 ELSE 1..6

ByteVals == {0, 128, 255}

Replies == [1..8 -> ByteVals]

Rebuilt(k, data, low, high) ==
    [ctx |-> "rebuild", handler |-> "getSetupInfo", k |-> k, data |-> data,
     low |-> low, high |-> high]

BytesInit ==
    /\ mainPc = "q_ok"
    /\ ready = TRUE
    /\ initialized = FALSE
    /\ registry = SubSeq(FullRegistry(NominalRca), 1, 4)
    /\ rca = NoRca
    /\ \E d \in Replies : myCANMessage = Msg(CAN_CONTROL, 0, QueryRCA(1), d)
    /\ port = [EPPS_INTERRUPT |-> 0, EPPS_NWAIT |-> 0, SPPS_SELECTIN |-> 1,
               DP7 |-> DP7_TRANSMIT, P7 |-> 0]
    /\ monTimer = [k \in 1..7 |-> MAX_TIMEOUT]
    /\ cmdTimer = [k \in 1..6 |-> 0]
    /\ attempt = NoAttempt
    /\ last = NoCall
    /\ irqs = 0

\* the rebuild of the two bounds of step k from the reply in myCANMessage
RebuildStep(k) ==
    /\ irqs = k - 1
    /\ last' = Rebuilt(k, myCANMessage.data,
                       RebuildU32(myCANMessage.data, 0),
                       RebuildU32(myCANMessage.data, 4))
    /\ irqs' = k
    /\ UNCHANGED << mainPc, ready, initialized, registry, rca, myCANMessage,
                    port, monTimer, cmdTimer, attempt >>

BytesNext == \E k \in 1..4 : RebuildStep(k)

SpecBytes == BytesInit /\ [][BytesNext]_vars

\* C24 (byte order of the negotiated bounds): for every 8-byte reply
\* [L0,L1,L2,L3,H0,H1,H2,H3] each of the four negotiation steps computes
\* low = L0 + L1*2^8 + L2*2^16 + L3*2^24 and high likewise from H0..H3, as
\* 32-bit unsigned values with no overflow (the low 16 bits are
\* L0 + L1*2^8, the high 16 bits L2 + L3*2^8; below 2^31 the integer is
\* that sum), and encoding low and high little-endian gives back the same
\* 8 bytes.
C24_ByteOrder ==
    last.ctx = "rebuild"
        => LET d == last.data
           IN  /\ last.low = U32(d[3] + d[4] * 256, d[1] + d[2] * 256)
               /\ last.high = U32(d[7] + d[8] * 256, d[5] + d[6] * 256)
               /\ d[4] < 128 => RebuildRCA(d, 0) = ValueOf(last.low)
               /\ d[8] < 128 => RebuildRCA(d, 4) = ValueOf(last.high)
               /\ EncodeU32(last.low, last.high) = d

\* the fourth step has rebuilt a low bound of 0x80FF0080, above 2^31, and a
\* high bound of 0xFFFFFFFF
C24_Witness ==
    /\ last.ctx = "rebuild"
    /\ last.k = 4
    /\ last.data = << 128, 0, 255, 128, 255, 255, 255, 255 >>
    /\ last.low = U32(33023, 128)
    /\ last.high = U32(65535, 65535)

(***************************************************************************)
(* Properties of the negotiation (Spec)                                    *)
(***************************************************************************)
\* the five entries one negotiation registers for the bounds r, in order
NegotiatedEntries(r) == SubSeq(FullRegistry(r), 5, 9)

\* C23 (negotiation order and handler mapping): a successful negotiation
\* attempt sends exactly four monitor queries, each once, to 0x20003,
\* 0x20004, 0x20005 and 0x20006 in that order, the registrations of a step
\* being made before the next query; it registers the two pieces of the
\* special-monitor range and the monitor range with monitorMsg, the
\* special-control and the control range with controlMsg, and sets
\* initialized with status byte 0 and return code 0 after the fourth
\* registration.
C23_NegotiationOrder ==
    /\ (SetupReturned /\ last.ret = 0)
          => /\ last.txns = 4
             /\ last.post.initialized
             /\ last.out.data[1] = STATUS_NO_ERROR
             /\ last.post.registry
                   = last.pre.registry \o NegotiatedEntries(last.post.rca)
             /\ last.ctx = "isr"
                   => \A k \in 1..4 :
                        /\ last.calls[k].fn = "implMonitorSingle"
                        /\ last.calls[k].in.dirn = CAN_MONITOR
                        /\ last.calls[k].in.relative_address = QueryRCA(k)
    /\ (last.ctx = "main" /\ last.handler = "implMonitorSingle")
          => /\ last.in.dirn = CAN_MONITOR
             /\ last.in.relative_address = QueryRCA(attempt.k)
             /\ attempt.txns = attempt.k
             /\ last.pre.registry
                   = attempt.pre.registry
                       \o SubSeq(NegotiatedEntries(last.pre.rca), 1,
                                 RollbackCount(attempt.k))

\* the number of amb_register_function calls of step k of the negotiation
RegistrationsOf(k) == IF k = 1 THEN 2 ELSE 1

\* the number of amb_register_function calls a call of getSetupInfo made
\* before it returned: all five, or those of the steps before the timeout
RegistrationsUpTo(failedAt) ==
    IF failedAt = 0 THEN 5 ELSE RollbackCount(failedAt)

\* C26 (registry capacity is never exceeded): in every reachable state the
\* number of amb_register_function calls not undone by
\* amb_unregister_last_function is at most 9, the slots of cb_memory: every
\* registration of the boot and of a negotiation attempt, also of one the
\* CAN interrupt runs during main's negotiation, finds a free slot.
C26_RegistryCapacity ==
    /\ Len(registry) <= CB_SLOTS
    /\ mainPc = "q_ok" => Len(registry) + RegistrationsOf(attempt.k) <= CB_SLOTS
    /\ (SetupReturned /\ last.ctx = "isr" /\ last.txns > 0)
          => Len(last.pre.registry) + RegistrationsUpTo(last.failedAt) <= CB_SLOTS

(***************************************************************************)
(* The negotiation with any bounds (SpecRange).  main has set ready and    *)
(* enters its loop; no CAN request arrives; ARCOM answers each query with  *)
(* a range low <= high whose bounds are taken from RangeBounds, or lets    *)
(* the first query time out.                                               *)
(***************************************************************************)
\* 0x20000, 0x20030 (inside the reserved range), 0x20040, 0x20FFF
RangeBounds == {131072, 131120, 131136, 135167}

RangePairs == {p \in RangeBounds \X RangeBounds : p[1] <= p[2]}

RangeReply(p) == Behaviour(LateAt({}), 0, 8, EncodeRange(p[1], p[2]))

RangeBehaviours(k) ==
    {RangeReply(p) : p \in RangePairs}
        \cup (IF k = 1 THEN {Behaviour(LateAt({1}), 0, 0, ReplyBytes)} ELSE {})

RangeInit ==
    /\ mainPc = "loop"
    /\ ready = TRUE
    /\ initialized = FALSE
    /\ registry = << StaticEntry(1), StaticEntry(2), StaticEntry(3), StaticEntry(4) >>
    /\ rca = NoRca
    /\ myCANMessage = NoMsg
    /\ port = [EPPS_INTERRUPT |-> 0, EPPS_NWAIT |-> 0, SPPS_SELECTIN |-> 1,
               DP7 |-> DP7_TRANSMIT, P7 |-> 0]
    /\ monTimer = [k \in 1..7 |-> 0]
    /\ cmdTimer = [k \in 1..6 |-> 0]
    /\ attempt = NoAttempt
    /\ last = NoCall
    /\ irqs = 0

RangeNext ==
    /\ \/ MainLoop
       \/ MainCall
       \/ MainEntry
       \/ MainQueryBegin
       \/ \E b \in RangeBehaviours(attempt.k) : MainQueryTxn(b)
       \/ MainQueryOk
       \/ MainQueryFail
       \/ MainAfterCall
       \/ MainSelectIn
    /\ UNCHANGED irqs

SpecRange == RangeInit /\ [][RangeNext]_vars

\* the entries negotiation has registered
Dynamic == {registry[i] : i \in 5..Len(registry)}

\* the range of entry e contains an address of the reserved range
OverlapsReserved(e) ==
    \E a \in BASE_AMBSI1_RESERVED..LAST_AMBSI1_RESERVED : e.low <= a /\ a <= e.high

\* C25 (no dynamic range overlaps the reserved diagnostics range): in every
\* reachable state, whatever bounds ARCOM reports in the four replies, no
\* range registered by negotiation contains an address of
\* 0x20020..0x2003F, so each of these addresses is served by one range.
C25_NoOverlapWithReserved ==
    \A e \in Dynamic : ~OverlapsReserved(e)

\* C27 (registered ranges are well formed): every range negotiation
\* registers has low <= high, whatever pair of bounds ARCOM reports, the two
\* pieces [low, 0x2001F] and [0x20040, high] of the special-monitor range
\* included, also when the reported range does not strictly contain the
\* reserved range.
C27_RangesWellFormed ==
    \A e \in Dynamic : e.low <= e.high

====
